---- MODULE Spec2Model ----
(***************************************************************************)
(* Document chat (RAG) pipeline: the chat function (query embedding,       *)
(* retrieval, generation with retry and provider failover), the ingestion  *)
(* function (processDocument) and the upload client that triggers it.      *)
(*                                                                         *)
(* Texts are sequences of tokens.  A token is an indivisible piece of a    *)
(* message; String.includes on a message is modelled by Includes, which    *)
(* looks for the needle inside every token (see Needles).                  *)
(***************************************************************************)
EXTENDS Integers, Sequences, FiniteSets, TLC

VARIABLES
    \* ---- environment of the edge function (Deno.env)
    geminiApiKey,   \* GOOGLE_GEMINI_API_KEY is set
    openaiApiKey,   \* OPENAI_API_KEY is set
    \* ---- position of the running function
    pc,
    \* ---- retryWithBackoff: locals and outcome of the running call
    attempt,        \* loop variable
    lastError,      \* local lastError
    rstatus,        \* "idle" | "running" | "waiting" | "returned" | "thrown"
    rvalue,         \* value returned by the operation
    delay,          \* the delay (ms) being slept
    \* ---- observation of the provider traffic of the running retry call
    calls,          \* invocations of the operation
    delays,         \* backoff delays scheduled
    resp,           \* the provider's response to the latest invocation
    \* ---- generateAIResponse
    geminiError,    \* the error caught from callGeminiAPI
    geminiCalls,    \* invocations of the Gemini operation in this turn
    geminiResp,     \* the response that ended callGeminiAPI
    openaiCalls,    \* invocations of the OpenAI operation in this turn
    genResult,      \* what generateAIResponse returned or threw
    \* ---- the store
    documents,      \* table documents: id -> row
    document_chunks,\* table document_chunks: set of rows
    chat_messages,  \* table chat_messages: rows inserted, in order
    \* ---- the chat function (serve)
    userId,         \* userId of the request body
    chunks,         \* local chunks
    retrieval,      \* where chunks came from: "none" | "primary" | "fallback" | "failed"
    prompt,         \* locals context and sources, built from chunks
    response,       \* the HTTP response of the function
    \* ---- the upload client (uploadDocument)
    cpc,            \* position of uploadDocument
    \* ---- the ingestion function (serve of process-document), per invocation
    fn,             \* invocation -> its locals
    \* ---- calls of chunkText
    chunkArgs,      \* the arguments text, maxChunkSize, overlap
    textChunks,     \* what each call with these arguments returned, in order
    otherCalls,     \* calls with other arguments made in between
    \* ---- the chat client (ChatInterface)
    messages,       \* state messages: the ids of the messages shown, in order
    loading,        \* state loading
    now,            \* Date.now()
    sendMessage     \* the running sendMessage: its position and tempUserMessage.id

genVars == <<geminiApiKey, openaiApiKey, pc, attempt, lastError, rstatus, rvalue,
             delay, calls, delays, resp, geminiError, geminiCalls, geminiResp,
             openaiCalls, genResult>>

storeVars == <<documents, document_chunks, chat_messages>>

chatVars == <<userId, chunks, retrieval, prompt, response>>

ingestVars == <<cpc, fn>>

chunkVars == <<chunkArgs, textChunks, otherCalls>>
sendVars == <<messages, loading, now, sendMessage>>

vars == <<genVars, storeVars, chatVars, ingestVars, chunkVars, sendVars>>

----------------------------------------------------------------------------
(* Messages and String.includes *)

\* The needles the code searches for that occur inside a longer token.
\* "generated" and "generate" contain "rate".
Needles(tok) ==
    {tok} \cup
    (CASE tok = "No response generated from Gemini" -> {"rate"}
       [] tok = "No response generated from OpenAI" -> {"rate"}
       [] tok = "Failed to generate query embedding" -> {"rate"}
       [] OTHER -> {})

\* message.includes(needle)
Includes(message, needle) ==
    \E i \in DOMAIN message : needle \in Needles(message[i])

Err(message) == [message |-> message]

NoError == Err(<<>>)

\* `${response.status}`
StatusText(s) ==
    CASE s = 400 -> "400"
      [] s = 401 -> "401"
      [] s = 429 -> "429"
      [] s = 500 -> "500"
      [] s = 503 -> "503"
      [] OTHER -> "200"

----------------------------------------------------------------------------
(* Provider responses *)

\* Response bodies a provider sends with a non-2xx status.
Bodies == {<<>>, <<"overloaded">>, <<"429">>, <<"quota">>}

\* Messages of the TypeError fetch rejects with when no response arrives.
FetchFailures == {<<"network">>, <<"error sending request">>}

ErrStatuses == {400, 401, 429, 500, 503}

NoResp == [status |-> -1, body |-> <<>>, payload |-> FALSE]

\* status 0: fetch rejected, body holds the TypeError's message.
\* status 200: payload says whether the expected field is in the JSON.
Responses ==
    {[status |-> s, body |-> b, payload |-> FALSE] : s \in ErrStatuses, b \in Bodies}
    \cup {[status |-> 200, body |-> <<>>, payload |-> p] : p \in BOOLEAN}
    \cup {[status |-> 0, body |-> b, payload |-> FALSE] : b \in FetchFailures}

Sites == {"embed", "gemini", "openai"}

\* The text (or embedding) a provider's 2xx payload carries.
PayloadOf(site) ==
    CASE site = "gemini" -> "gemini text"
      [] site = "openai" -> "openai text"
      [] OTHER -> "embedding"

Ok(v) == [ok |-> TRUE, value |-> v, error |-> NoError]
Throw(e) == [ok |-> FALSE, value |-> "", error |-> e]

\* The operation callGeminiAPI passes to retryWithBackoff.
GeminiOperation(r) ==
    IF r.status = 0 THEN Throw(Err(r.body))
    ELSE IF r.status # 200 THEN
        IF r.status = 503 THEN Throw(Err(<<"GEMINI_OVERLOADED", ": ">> \o r.body))
        ELSE IF r.status = 429 THEN Throw(Err(<<"GEMINI_RATE_LIMITED", ": ">> \o r.body))
        ELSE Throw(Err(<<"Gemini API failed: ", StatusText(r.status), " - ">> \o r.body))
    ELSE IF ~r.payload THEN Throw(Err(<<"No response generated from Gemini">>))
    ELSE Ok(PayloadOf("gemini"))

\* The operation callOpenAIFallback passes to retryWithBackoff.
OpenAIOperation(r) ==
    IF r.status = 0 THEN Throw(Err(r.body))
    ELSE IF r.status # 200 THEN
        Throw(Err(<<"OpenAI API failed: ", StatusText(r.status), " - ">> \o r.body))
    ELSE IF ~r.payload THEN Throw(Err(<<"No response generated from OpenAI">>))
    ELSE Ok(PayloadOf("openai"))

\* The query-embedding operation of the chat function.
EmbedOperation(r) ==
    IF r.status = 0 THEN Throw(Err(r.body))
    ELSE IF r.status # 200 THEN
        Throw(Err(<<"Embedding API failed: ", StatusText(r.status), " - ">> \o r.body))
    ELSE IF ~r.payload THEN Throw(Err(<<"Failed to generate query embedding">>))
    ELSE Ok(PayloadOf("embed"))

Operation(site, r) ==
    CASE site = "gemini" -> GeminiOperation(r)
      [] site = "openai" -> OpenAIOperation(r)
      [] OTHER -> EmbedOperation(r)

----------------------------------------------------------------------------
(* retryWithBackoff *)

\* maxRetries passed at each call site.
GeminiMaxRetries == 3
OpenAIMaxRetries == 2
EmbedMaxRetries == 3
BaseDelay == 1000

MaxRetries(site) ==
    CASE site = "gemini" -> GeminiMaxRetries
      [] site = "openai" -> OpenAIMaxRetries
      [] OTHER -> EmbedMaxRetries

\* Variant of IsRetryable that also takes "quota" for a transient signal.
IsRetryableAlsoQuota(error) ==
    \/ Includes(error.message, "503")
    \/ Includes(error.message, "429")
    \/ Includes(error.message, "500")
    \/ Includes(error.message, "overloaded")
    \/ Includes(error.message, "network")
    \/ Includes(error.message, "quota")

IsRetryable(error) ==
    \/ Includes(error.message, "503")
    \/ Includes(error.message, "429")
    \/ Includes(error.message, "500")
    \/ Includes(error.message, "overloaded")
    \/ Includes(error.message, "network")

\* Variant of Caught that keeps the first error of the call.
CaughtKeepsFirst(previous, error) == IF previous = [message |-> <<>>] THEN error ELSE previous

\* lastError = error: the catch block keeps the error just caught.
Caught(previous, error) == error

\* Variant of LastAttempt that stops one pass early.
LastAttemptOneEarly(a, maxRetries) == a + 1 = maxRetries

\* attempt === maxRetries
LastAttempt(a, maxRetries) == a = maxRetries

\* the for loop's attempt++
NextAttempt(a) == a + 1

RECURSIVE Pow2(_)
Pow2(k) == IF k = 0 THEN 1 ELSE 2 * Pow2(k - 1)

\* Math.random() * 1000, floored to whole milliseconds; samples of [0, 1000).
Jitters == {0, 500, 999}

\* Variant of BackoffDelay that grows linearly.
BackoffDelayLinear(baseDelay, a, jitter) == baseDelay * (a + 1) + jitter

BackoffDelay(baseDelay, a, jitter) == baseDelay * Pow2(a) + jitter

retryVars == <<attempt, lastError, rstatus, rvalue, delay, calls, delays, resp>>

\* Entering retryWithBackoff.
RetryEnter ==
    /\ attempt' = 0
    /\ lastError' = NoError
    /\ rstatus' = "running"
    /\ rvalue' = ""
    /\ delay' = 0
    /\ calls' = 0
    /\ delays' = 0
    /\ resp' = NoResp

\* Leaving it: its locals are gone.
RetryLeave ==
    /\ attempt' = 0
    /\ lastError' = NoError
    /\ rstatus' = "idle"
    /\ rvalue' = ""
    /\ delay' = 0
    /\ calls' = 0
    /\ delays' = 0
    /\ resp' = NoResp

\* One pass of the loop body: await operation(), then the catch block up to
\* the point where the delay timer is set.
RetryStep(site, r) ==
    LET out == Operation(site, r) IN
    /\ resp' = r
    /\ calls' = calls + 1
    /\ IF out.ok
       THEN /\ rstatus' = "returned"
            /\ rvalue' = out.value
            /\ UNCHANGED <<attempt, lastError, delay, delays>>
       ELSE /\ lastError' = Caught(lastError, out.error)
            /\ rvalue' = rvalue
            /\ IF LastAttempt(attempt, MaxRetries(site)) \/ ~IsRetryable(out.error)
               THEN /\ rstatus' = "thrown"
                    /\ UNCHANGED <<attempt, delay, delays>>
               ELSE /\ rstatus' = "waiting"
                    /\ \E j \in Jitters : delay' = BackoffDelay(BaseDelay, attempt, j)
                    /\ delays' = delays + 1
                    /\ UNCHANGED attempt

\* The timer fires; the loop goes to its next pass (or falls out of the loop).
RetryResume(site) ==
    /\ attempt' = NextAttempt(attempt)
    /\ rstatus' = IF NextAttempt(attempt) <= MaxRetries(site) THEN "running" ELSE "thrown"
    /\ delay' = 0
    /\ UNCHANGED <<lastError, rvalue, calls, delays, resp>>

----------------------------------------------------------------------------
(* generateAIResponse *)

NoResult == [kind |-> "none", response |-> "", provider |-> "", error |-> NoError]

Returned(text, provider) ==
    [kind |-> "return", response |-> text, provider |-> provider, error |-> NoError]

Thrown(error) == [kind |-> "throw", response |-> "", provider |-> "", error |-> error]

\* The site whose operation runs at a position of generateAIResponse.
SiteOf(p) == IF p = "gemini" THEN "gemini" ELSE "openai"

\* Variant of FailoverError that fails over on an overload only.
FailoverErrorOverloadOnly(error) == Includes(error.message, "GEMINI_OVERLOADED")

\* Variant of FailoverError that fails over on every error.
FailoverErrorAlways(error) == error.message = error.message

\* error.message.includes('GEMINI_OVERLOADED') || ...includes('GEMINI_RATE_LIMITED')
FailoverError(error) ==
    \/ Includes(error.message, "GEMINI_OVERLOADED")
    \/ Includes(error.message, "GEMINI_RATE_LIMITED")

\* Variant of FirstProvider that calls OpenAI when no key is configured.
FirstProviderDefaultsToOpenAI(gemini, openai) == IF gemini THEN "gemini" ELSE "openai"

\* if (geminiApiKey) ... if (openaiApiKey) ...: the provider called first.
FirstProvider(gemini, openai) ==
    IF gemini THEN "gemini" ELSE IF openai THEN "openai" ELSE "none"

\* Entry: choose the provider by the configured keys.
GenStart ==
    /\ pc = "generate"
    /\ IF FirstProvider(geminiApiKey, openaiApiKey) = "gemini"
       THEN pc' = "gemini" /\ RetryEnter /\ UNCHANGED genResult
       ELSE IF FirstProvider(geminiApiKey, openaiApiKey) = "openai"
       THEN pc' = "openai" /\ RetryEnter /\ UNCHANGED genResult
       ELSE /\ pc' = "generated"
            /\ genResult' = Thrown(Err(<<"No AI API keys configured">>))
            /\ UNCHANGED retryVars
    /\ UNCHANGED <<geminiApiKey, openaiApiKey, geminiError, geminiCalls, geminiResp,
                   openaiCalls, storeVars, chatVars, ingestVars, chunkVars, sendVars>>

\* callGeminiAPI: one invocation of the operation.
GeminiCall ==
    /\ pc = "gemini" /\ rstatus = "running"
    /\ \E r \in Responses : RetryStep("gemini", r)
    /\ geminiCalls' = geminiCalls + 1
    /\ UNCHANGED <<geminiApiKey, openaiApiKey, pc, geminiError, geminiResp, openaiCalls,
                   genResult, storeVars, chatVars, ingestVars, chunkVars, sendVars>>

\* callOpenAIFallback: one invocation of the operation.
OpenAICall ==
    /\ pc \in {"openaiFallback", "openai"} /\ rstatus = "running"
    /\ \E r \in Responses : RetryStep("openai", r)
    /\ openaiCalls' = openaiCalls + 1
    /\ UNCHANGED <<geminiApiKey, openaiApiKey, pc, geminiError, geminiResp, geminiCalls,
                   genResult, storeVars, chatVars, ingestVars, chunkVars, sendVars>>

\* The backoff timer of a generation call fires.
GenBackoff ==
    /\ pc \in {"gemini", "openaiFallback", "openai"} /\ rstatus = "waiting"
    /\ RetryResume(SiteOf(pc))
    /\ UNCHANGED <<geminiApiKey, openaiApiKey, pc, geminiError, geminiResp, geminiCalls,
                   openaiCalls, genResult, storeVars, chatVars, ingestVars, chunkVars, sendVars>>

\* callGeminiAPI returned.
GeminiReturn ==
    /\ pc = "gemini" /\ rstatus = "returned"
    /\ genResult' = Returned(rvalue, "Gemini")
    /\ geminiResp' = resp
    /\ pc' = "generated"
    /\ RetryLeave
    /\ UNCHANGED <<geminiApiKey, openaiApiKey, geminiError, geminiCalls, openaiCalls,
                   storeVars, chatVars, ingestVars, chunkVars, sendVars>>

\* callGeminiAPI threw: the catch block.
GeminiCatch ==
    /\ pc = "gemini" /\ rstatus = "thrown"
    /\ geminiError' = lastError
    /\ geminiResp' = resp
    /\ IF FailoverError(lastError) /\ openaiApiKey
       THEN pc' = "openaiFallback" /\ RetryEnter /\ UNCHANGED genResult
       ELSE pc' = "generated" /\ genResult' = Thrown(lastError) /\ RetryLeave
    /\ UNCHANGED <<geminiApiKey, openaiApiKey, geminiCalls, openaiCalls, storeVars, chatVars,
                   ingestVars, chunkVars, sendVars>>

\* callOpenAIFallback returned.
OpenAIReturn ==
    /\ pc \in {"openaiFallback", "openai"} /\ rstatus = "returned"
    /\ genResult' = Returned(rvalue, IF pc = "openaiFallback" THEN "OpenAI (fallback)" ELSE "OpenAI")
    /\ pc' = "generated"
    /\ RetryLeave
    /\ UNCHANGED <<geminiApiKey, openaiApiKey, geminiError, geminiResp, geminiCalls,
                   openaiCalls, storeVars, chatVars, ingestVars, chunkVars, sendVars>>

\* callOpenAIFallback threw: as the fallback its error is logged and the
\* Gemini error is rethrown; as the only provider its own error is rethrown.
OpenAICatch ==
    /\ pc \in {"openaiFallback", "openai"} /\ rstatus = "thrown"
    /\ genResult' = Thrown(IF pc = "openaiFallback" THEN geminiError ELSE lastError)
    /\ pc' = "generated"
    /\ RetryLeave
    /\ UNCHANGED <<geminiApiKey, openaiApiKey, geminiError, geminiResp, geminiCalls,
                   openaiCalls, storeVars, chatVars, ingestVars, chunkVars, sendVars>>

GenNext ==
    \/ GenStart
    \/ GeminiCall
    \/ OpenAICall
    \/ GenBackoff
    \/ GeminiReturn
    \/ GeminiCatch
    \/ OpenAIReturn
    \/ OpenAICatch

----------------------------------------------------------------------------
(* The store *)

NULL == "null"

NoPrompt == [context |-> <<>>, sources |-> <<>>]

NoResponse == [status |-> 0, response |-> <<>>, sources |-> <<>>, error |-> <<>>, provider |-> ""]

EmptyStore ==
    /\ documents = <<>>
    /\ document_chunks = {}
    /\ chat_messages = <<>>

IdleChat ==
    /\ userId = NULL
    /\ chunks = <<>>
    /\ retrieval = "none"
    /\ prompt = NoPrompt
    /\ response = NoResponse

NoArgs == [text |-> <<>>, maxChunkSize |-> 0, overlap |-> 0]

IdleChunk ==
    /\ chunkArgs = NoArgs
    /\ textChunks = <<>>
    /\ otherCalls = 0

NoMessageId == [kind |-> "none", n |-> 0]

NotSending == [pc |-> "idle", tempUserMessage |-> NoMessageId, failed |-> FALSE, sends |-> 0]

IdleSend ==
    /\ messages = <<>>
    /\ loading = FALSE
    /\ now = 0
    /\ sendMessage = NotSending

IdleIngest ==
    /\ cpc = "idle"
    /\ fn = <<>>

IdleGen ==
    /\ attempt = 0
    /\ lastError = NoError
    /\ rstatus = "idle"
    /\ rvalue = ""
    /\ delay = 0
    /\ calls = 0
    /\ delays = 0
    /\ resp = NoResp
    /\ geminiError = NoError
    /\ geminiCalls = 0
    /\ geminiResp = NoResp
    /\ openaiCalls = 0
    /\ genResult = NoResult

\* generateAIResponse called on its own, under every configuration of keys.
GenInit ==
    /\ geminiApiKey \in BOOLEAN
    /\ openaiApiKey \in BOOLEAN
    /\ pc = "generate"
    /\ IdleGen
    /\ EmptyStore
    /\ IdleChat
    /\ IdleIngest
    /\ IdleChunk
    /\ IdleSend

SpecGen == GenInit /\ [][GenNext]_vars

----------------------------------------------------------------------------
(* match_documents and the fallback query *)

Users == {"u1", "u2"}

\* Similarity 1 - cosine distance, in hundredths.
Sims == {30, 50, 70, 90}

\* match_threshold and match_count passed by the chat function.
MatchThreshold == 50
MatchCount == 5

\* A stored chunk as a result row (similarity -1: the query has no such column).
Row(c, sim) ==
    [id |-> c.id, document_id |-> c.document_id, content |-> c.content,
     owner |-> documents[c.document_id].user_id, similarity |-> sim]

\* Variant of Matches without the condition on the document's status.
MatchesAnyStatus(c, sim, match_threshold, user_id) ==
    /\ (user_id = "null" \/ documents[c.document_id].user_id = user_id)
    /\ sim > match_threshold

\* Variant of Matches that lets a similarity equal to the threshold pass.
MatchesFromThreshold(c, sim, match_threshold, user_id) ==
    /\ (user_id = "null" \/ documents[c.document_id].user_id = user_id)
    /\ documents[c.document_id].status = "completed"
    /\ sim >= match_threshold

\* The WHERE clause of match_documents.
Matches(c, sim, match_threshold, user_id) ==
    /\ (user_id = NULL \/ documents[c.document_id].user_id = user_id)
    /\ documents[c.document_id].status = "completed"
    /\ sim > match_threshold

\* Sequences over S without repetition, of length n.
Arrangements(S, n) ==
    {q \in [1..n -> S] : \A i, j \in 1..n : i # j => q[i] # q[j]}

Min(a, b) == IF a < b THEN a ELSE b

\* ORDER BY distance LIMIT count: the possible results.  The next row is
\* always one of the most similar rows left (ties come in any order).
RECURSIVE Ranked(_, _)
Ranked(hits, count) ==
    IF count = 0 \/ hits = {} THEN {<<>>}
    ELSE UNION {{<<h>> \o rest : rest \in Ranked(hits \ {h}, count - 1)} :
                  h \in {x \in hits : \A y \in hits : x.similarity >= y.similarity}}

\* match_documents; sim gives each chunk id its similarity to the query
\* embedding.
MatchDocuments(sim, match_threshold, match_count, user_id) ==
    Ranked({Row(c, sim[c.id]) : c \in {x \in document_chunks :
                Matches(x, sim[x.id], match_threshold, user_id)}}, match_count)

\* Variant of FallbackQuery without the filter on the owner.
FallbackQueryAnyOwner(user_id, limit) ==
    LET hits == {Row(c, -1) : c \in document_chunks}
        n == Min(limit, Cardinality(hits))
    IN Arrangements(hits, n)

\* .eq('documents.user_id', userId) on the inner join, .limit(5): any rows of
\* the owner's documents, in any order.  A null id is not a uuid the filter
\* can compare with, so the query fails.
FallbackQuery(user_id, limit) ==
    LET hits == {Row(c, -1) : c \in {x \in document_chunks :
                     documents[x.document_id].user_id = user_id}}
        n == Min(limit, Cardinality(hits))
    IN Arrangements(hits, n)

----------------------------------------------------------------------------
(* The chat function *)

NoRelevantText == <<"I couldn't find relevant documents for your query.">>
NoContentText == <<"I don't have any document content to reference.">>
DifficultiesText == "I'm experiencing technical difficulties right now. "
OverloadedText == "The AI service is currently overloaded."
RateLimitedText == "Too many requests are being processed."
GenericText == "Please try again later or contact support if the issue persists."

\* The apology chosen in the catch block around generateAIResponse.
UserMessage(error) ==
    <<DifficultiesText,
      IF Includes(error.message, "overloaded") \/ Includes(error.message, "503")
      THEN OverloadedText
      ELSE IF Includes(error.message, "rate") \/ Includes(error.message, "429")
      THEN RateLimitedText
      ELSE GenericText>>

\* chunks.map(chunk => chunk.content).join('\n\n')
RECURSIVE Context(_)
Context(rows) ==
    IF rows = <<>> THEN <<>>
    ELSE IF Len(rows) = 1 THEN rows[1].content
    ELSE rows[1].content \o <<"\n\n">> \o Context(Tail(rows))

\* sources: one entry per chunk, in order.  The rows carry no title, so the
\* title is the default; the excerpt is the content's head and an ellipsis.
Sources(rows) ==
    [i \in DOMAIN rows |->
        [document_title |-> "Document", chunk_content |-> rows[i].content \o <<"...">>]]

AssistantMessage(content, sources) ==
    [role |-> "assistant", content |-> content, sources |-> sources]

\* The outer catch: status 500 with the error's message.
ErrorResponse(error) ==
    [status |-> 500, response |-> <<>>, sources |-> <<>>, error |-> error.message,
     provider |-> ""]

\* An insert whose result is not looked at: the row is stored or it is not.
InsertIgnoringResult(row) ==
    \/ chat_messages' = Append(chat_messages, row)
    \/ chat_messages' = chat_messages

genLocals == <<geminiError, geminiCalls, geminiResp, openaiCalls, genResult>>

\* Request body read and key check; then the query embedding starts.
ChatStart ==
    /\ pc = "chatStart"
    /\ IF geminiApiKey
       THEN pc' = "embed" /\ RetryEnter /\ UNCHANGED response
       ELSE /\ pc' = "done"
            /\ response' = ErrorResponse(Err(<<"Google Gemini API key not configured">>))
            /\ UNCHANGED retryVars
    /\ UNCHANGED <<geminiApiKey, openaiApiKey, genLocals, storeVars, userId, chunks,
                   retrieval, prompt, ingestVars, chunkVars, sendVars>>

\* Query embedding: one invocation of the operation.
EmbedCall ==
    /\ pc = "embed" /\ rstatus = "running"
    /\ \E r \in Responses : RetryStep("embed", r)
    /\ UNCHANGED <<geminiApiKey, openaiApiKey, pc, genLocals, storeVars, chatVars,
                   ingestVars, chunkVars, sendVars>>

\* The backoff timer of the query embedding fires.
EmbedBackoff ==
    /\ pc = "embed" /\ rstatus = "waiting"
    /\ RetryResume("embed")
    /\ UNCHANGED <<geminiApiKey, openaiApiKey, pc, genLocals, storeVars, chatVars,
                   ingestVars, chunkVars, sendVars>>

\* The query embedding is there: on to the search.
EmbedReturn ==
    /\ pc = "embed" /\ rstatus = "returned"
    /\ pc' = "search"
    /\ RetryLeave
    /\ UNCHANGED <<geminiApiKey, openaiApiKey, genLocals, storeVars, chatVars,
                   ingestVars, chunkVars, sendVars>>

\* The query embedding failed: outer catch.
EmbedCatch ==
    /\ pc = "embed" /\ rstatus = "thrown"
    /\ pc' = "done"
    /\ response' = ErrorResponse(lastError)
    /\ RetryLeave
    /\ UNCHANGED <<geminiApiKey, openaiApiKey, genLocals, storeVars, userId, chunks,
                   retrieval, prompt, ingestVars, chunkVars, sendVars>>

\* Variant of Search in which the rows the search returns are removed from
\* the table.
SearchConsumes ==
    /\ pc = "search"
    /\ \/ pc' = "fallback" /\ UNCHANGED <<chunks, retrieval, document_chunks>>
       \/ /\ \E sim \in [{c.id : c \in document_chunks} -> Sims] :
                chunks' \in MatchDocuments(sim, MatchThreshold, MatchCount, userId)
          /\ document_chunks' =
                 {c \in document_chunks : \A i \in DOMAIN chunks' : chunks'[i].id # c.id}
          /\ retrieval' = "primary"
          /\ pc' = "assemble"
    /\ UNCHANGED <<geminiApiKey, openaiApiKey, retryVars, genLocals, documents,
                   chat_messages, userId, prompt, response, ingestVars, chunkVars, sendVars>>

\* rpc('match_documents'): an error, or the rows of some similarity assignment.
Search ==
    /\ pc = "search"
    /\ \/ pc' = "fallback" /\ UNCHANGED <<chunks, retrieval>>
       \/ /\ \E sim \in [{c.id : c \in document_chunks} -> Sims] :
                chunks' \in MatchDocuments(sim, MatchThreshold, MatchCount, userId)
          /\ retrieval' = "primary"
          /\ pc' = "assemble"
    /\ UNCHANGED <<geminiApiKey, openaiApiKey, retryVars, genLocals, storeVars, userId,
                   prompt, response, ingestVars, chunkVars, sendVars>>

\* The fallback query after a search error: its error leaves chunks empty.
Fallback ==
    /\ pc = "fallback"
    /\ \/ chunks' = <<>> /\ retrieval' = "failed"
       \/ /\ userId # NULL
          /\ chunks' \in FallbackQuery(userId, MatchCount)
          /\ retrieval' = "fallback"
    /\ pc' = "assemble"
    /\ UNCHANGED <<geminiApiKey, openaiApiKey, retryVars, genLocals, storeVars, userId,
                   prompt, response, ingestVars, chunkVars, sendVars>>

\* Variant of NoRelevantResponse that reports the empty result as an error.
NoRelevantAsError ==
    [status |-> 500, response |-> <<>>, sources |-> <<>>,
     error |-> <<"I couldn't find relevant documents for your query.">>, provider |-> ""]

\* The response when no chunk was retrieved.
NoRelevantResponse ==
    [status |-> 200, response |-> NoRelevantText, sources |-> <<>>, error |-> <<>>,
     provider |-> ""]

\* No chunks: the fixed answer.  Otherwise context and sources are built;
\* empty context: the general answer, recorded; else generateAIResponse is
\* called with the prompt.
Assemble ==
    /\ pc = "assemble"
    /\ IF Len(chunks) = 0
       THEN /\ response' = NoRelevantResponse
            /\ pc' = "done"
            /\ UNCHANGED <<chat_messages, prompt>>
       ELSE /\ prompt' = [context |-> Context(chunks), sources |-> Sources(chunks)]
            /\ IF Len(Context(chunks)) = 0
               THEN /\ InsertIgnoringResult(AssistantMessage(NoContentText, <<>>))
                    /\ response' = [status |-> 200, response |-> NoContentText,
                                    sources |-> <<>>, error |-> <<>>, provider |-> ""]
                    /\ pc' = "done"
               ELSE /\ pc' = "generate"
                    /\ UNCHANGED <<response, chat_messages>>
    /\ UNCHANGED <<geminiApiKey, openaiApiKey, retryVars, genLocals, documents,
                   document_chunks, userId, chunks, retrieval, ingestVars, chunkVars, sendVars>>

\* generateAIResponse is back: the answer is saved and returned, or the error
\* is turned into an apology that is saved and returned.
ChatRespond ==
    /\ pc = "generated"
    /\ IF genResult.kind = "return"
       THEN /\ InsertIgnoringResult(AssistantMessage(<<genResult.response>>, prompt.sources))
            /\ response' = [status |-> 200, response |-> <<genResult.response>>,
                            sources |-> prompt.sources, error |-> <<>>,
                            provider |-> genResult.provider]
       ELSE /\ InsertIgnoringResult(AssistantMessage(UserMessage(genResult.error), <<>>))
            /\ response' = [status |-> 200, response |-> UserMessage(genResult.error),
                            sources |-> <<>>, error |-> <<"AI_SERVICE_UNAVAILABLE">>,
                            provider |-> ""]
    /\ pc' = "done"
    /\ UNCHANGED <<geminiApiKey, openaiApiKey, retryVars, genLocals, documents,
                   document_chunks, userId, chunks, retrieval, prompt, ingestVars,
                   chunkVars, sendVars>>

ChatNext ==
    \/ ChatStart
    \/ EmbedCall
    \/ EmbedBackoff
    \/ EmbedReturn
    \/ EmbedCatch
    \/ Search
    \/ Fallback
    \/ Assemble
    \/ GenNext
    \/ ChatRespond

\* The store a chat turn runs against: two owners; one document still in
\* processing whose first chunk is already stored, one marked error by the
\* client after some of its chunks were stored.
SampleDocuments ==
    [d \in {"d1", "d2", "d3", "d4"} |->
        CASE d = "d1" -> [user_id |-> "u1", status |-> "completed"]
          [] d = "d2" -> [user_id |-> "u1", status |-> "processing"]
          [] d = "d4" -> [user_id |-> "u1", status |-> "error"]
          [] OTHER -> [user_id |-> "u2", status |-> "completed"]]

SampleChunks ==
    {[id |-> "c1", document_id |-> "d1", content |-> <<"t1">>],
     [id |-> "c2", document_id |-> "d2", content |-> <<"t2">>],
     [id |-> "c3", document_id |-> "d3", content |-> <<"t3">>],
     [id |-> "c4", document_id |-> "d4", content |-> <<"t4">>]}

\* One chat request; userId is whatever the request body carries.
ChatInit ==
    /\ geminiApiKey \in BOOLEAN
    /\ openaiApiKey \in BOOLEAN
    /\ pc = "chatStart"
    /\ IdleGen
    /\ documents = SampleDocuments
    /\ document_chunks = SampleChunks
    /\ chat_messages = <<>>
    /\ userId \in Users \cup {NULL}
    /\ chunks = <<>>
    /\ retrieval = "none"
    /\ prompt = NoPrompt
    /\ response = NoResponse
    /\ IdleIngest
    /\ IdleChunk
    /\ IdleSend

SpecChat == ChatInit /\ [][ChatNext]_vars

\* A store with more chunks of one owner than match_count.
LargeDocuments ==
    [d \in {"d1", "d3"} |->
        IF d = "d1" THEN [user_id |-> "u1", status |-> "completed"]
        ELSE [user_id |-> "u2", status |-> "completed"]]

LargeChunks ==
    {[id |-> "c1", document_id |-> "d1", content |-> <<"t1">>],
     [id |-> "c2", document_id |-> "d1", content |-> <<"t2">>],
     [id |-> "c3", document_id |-> "d1", content |-> <<"t3">>],
     [id |-> "c4", document_id |-> "d1", content |-> <<"t4">>],
     [id |-> "c5", document_id |-> "d1", content |-> <<"t5">>],
     [id |-> "c6", document_id |-> "d1", content |-> <<"t6">>],
     [id |-> "c7", document_id |-> "d3", content |-> <<"t7">>]}

\* The chat turn from the request to the call of generateAIResponse (or to
\* the response, when it ends before), on the large store.
RetrieveNext ==
    \/ ChatStart
    \/ EmbedCall
    \/ EmbedBackoff
    \/ EmbedReturn
    \/ EmbedCatch
    \/ Search
    \/ Fallback
    \/ Assemble

RetrieveInit ==
    /\ geminiApiKey \in BOOLEAN
    /\ openaiApiKey = FALSE
    /\ pc = "chatStart"
    /\ IdleGen
    /\ documents = LargeDocuments
    /\ document_chunks = LargeChunks
    /\ chat_messages = <<>>
    /\ userId \in Users \cup {NULL}
    /\ chunks = <<>>
    /\ retrieval = "none"
    /\ prompt = NoPrompt
    /\ response = NoResponse
    /\ IdleIngest
    /\ IdleChunk
    /\ IdleSend

SpecRetrieve == RetrieveInit /\ [][RetrieveNext]_vars

----------------------------------------------------------------------------
(* Ingestion: uploadDocument (client) and processDocument (edge function) *)

\* How many times processDocument is invoked for the document: once by the
\* client, the others by an outside caller.
MaxInvocations == 2

Invocations == 1..MaxInvocations

\* The document the client uploads, and its owner.
Doc == "d1"
Owner == "u1"

\* CHECK (status IN (...)) of table documents.
StatusSet == {"uploading", "processing", "completed", "error"}

\* What extractText yields for the uploaded file: the length of the text and
\* the number of chunks chunkText(text, 1000, 200) makes of it.  A text of at
\* most 1000 characters is returned as one chunk; a longer one is split.
Extractions ==
    {[textLength |-> 0, nChunks |-> 0],
     [textLength |-> 9, nChunks |-> 0],
     [textLength |-> 40, nChunks |-> 1],
     [textLength |-> 1800, nChunks |-> 2]}

\* Dimension of column embedding.
EmbeddingDim == 768

\* What the embedding request of one chunk comes to: fetch rejects, a non-2xx
\* status, a 2xx body without embedding.values, or a vector of some dimension.
EmbeddingOutcomes ==
    {[kind |-> "throws", dim |-> 0, status |-> 0],
     [kind |-> "notOk", dim |-> 0, status |-> 503],
     [kind |-> "notOk", dim |-> 0, status |-> 400],
     [kind |-> "noValues", dim |-> 0, status |-> 200],
     [kind |-> "values", dim |-> EmbeddingDim, status |-> 200],
     [kind |-> "values", dim |-> 3, status |-> 200]}

NoEmbedding == [kind |-> "none", dim |-> 0, status |-> -1]

NoExtraction == [textLength |-> 0, nChunks |-> 0]

\* The locals of one invocation, and what it has done so far: tried, the
\* chunk indexes an embedding was requested for, one entry per request;
\* stored, the number of rows it inserted; statusWritten, the status value
\* of the update it sent to table documents ("" when it sent none);
\* requestText, the text of its latest embedding request.
FnIdle ==
    [pc |-> "idle", bodyUsed |-> FALSE, text |-> NoExtraction, i |-> 0,
     embeddingResponse |-> NoEmbedding, status |-> 0, chunksProcessed |-> 0,
     tried |-> <<>>, stored |-> 0, statusWritten |-> "", requestText |-> <<>>]

\* update({status: s, ...}).eq('id', id): rejected by the CHECK constraint when
\* s is not in the status set, and a no-op when there is no such row.
UpdateAccepted(id, s) == id \in DOMAIN documents /\ s \in StatusSet

UpdateStatus(id, s) ==
    IF UpdateAccepted(id, s)
    THEN [documents EXCEPT ![id].status = s]
    ELSE documents

\* Variant of BodyReadable in which a body can be read any number of times.
BodyReadableAgain(f) == TRUE

\* req.json(): the body of a request can be read once; a second read rejects.
BodyReadable(f) == ~f.bodyUsed

\* uploadDocument: the file goes to storage (or the upload fails: catch).
ClientUpload ==
    /\ cpc = "upload"
    /\ cpc' \in {"insert", "done"}
    /\ UNCHANGED <<genVars, storeVars, chatVars, fn, chunkVars, sendVars>>

\* uploadDocument: the document row is inserted with status processing
\* (or the insert fails: catch).
ClientInsert ==
    /\ cpc = "insert"
    /\ \/ /\ documents' = (Doc :> [user_id |-> Owner, status |-> "processing",
                                     total_chunks |-> 0])
          /\ cpc' = "invoke"
       \/ cpc' = "done" /\ UNCHANGED documents
    /\ UNCHANGED <<genVars, document_chunks, chat_messages, chatVars, fn, chunkVars, sendVars>>

\* uploadDocument: functions.invoke sends the request; invocation 1 starts.
ClientInvoke ==
    /\ cpc = "invoke"
    /\ cpc' = "awaiting"
    /\ fn' = [fn EXCEPT ![1].pc = "start"]
    /\ UNCHANGED <<genVars, storeVars, chatVars, chunkVars, sendVars>>

\* functions.invoke resolves with the function's response: a non-2xx status
\* is a functionError.
ClientInvokeReturns ==
    /\ cpc = "awaiting"
    /\ fn[1].pc = "done"
    /\ cpc' = IF fn[1].status = 200 THEN "done" ELSE "markError"
    /\ UNCHANGED <<genVars, storeVars, chatVars, fn, chunkVars, sendVars>>

\* functions.invoke resolves with a functionError because the connection to
\* the function failed; the function itself is not stopped by that.
ClientInvokeFails ==
    /\ cpc = "awaiting"
    /\ fn[1].pc # "done"
    /\ cpc' = "markError"
    /\ UNCHANGED <<genVars, storeVars, chatVars, fn, chunkVars, sendVars>>

\* uploadDocument: on functionError the status is set to error.
ClientMarkError ==
    /\ cpc = "markError"
    /\ documents' = UpdateStatus(Doc, "error")
    /\ cpc' = "done"
    /\ UNCHANGED <<genVars, document_chunks, chat_messages, chatVars, fn, chunkVars, sendVars>>

\* An outside caller invokes processDocument for the document again.
Reinvoke(k) ==
    /\ k # 1
    /\ fn[k].pc = "idle"
    /\ Doc \in DOMAIN documents
    /\ fn' = [fn EXCEPT ![k].pc = "start"]
    /\ UNCHANGED <<genVars, storeVars, chatVars, cpc, chunkVars, sendVars>>

\* Variant of Unreadable with a lower minimal length.
UnreadableBelowFive(x) == x.textLength < 5

\* !text || text.length < 10
Unreadable(x) == x.textLength < 10

\* processDocument up to the chunk loop: body read, document row, download,
\* extraction, text check, chunking, key check.  Any of them may raise.
FnPrepare(k) ==
    /\ fn[k].pc = "start"
    /\ \E failure \in {"none", "metadata", "download", "extract"}, x \in Extractions :
         LET read == [fn[k] EXCEPT !.bodyUsed = TRUE] IN
         IF failure # "none" \/ Doc \notin DOMAIN documents
         THEN fn' = [fn EXCEPT ![k] = [read EXCEPT !.pc = "catch"]]
         ELSE IF Unreadable(x) \/ ~geminiApiKey
         THEN fn' = [fn EXCEPT ![k] = [read EXCEPT !.pc = "catch", !.text = x]]
         ELSE fn' = [fn EXCEPT ![k] = [read EXCEPT !.pc = "loop", !.text = x, !.i = 0]]
    /\ UNCHANGED <<genVars, storeVars, chatVars, cpc, chunkVars, sendVars>>

\* chunks[i].content
ChunkContent(i) == <<"chunk", i>>

\* Variant of EmbedRequest that always sends the content of the first chunk.
EmbedRequestFirst(f) == ChunkContent(0)

\* The text of the embedding request of the pass: chunk.content.
EmbedRequest(f) == ChunkContent(f.i)

\* The row inserted for chunk i: its embedding has dimension dim and was
\* returned for the request text embeddedText.
ChunkRow(i, dim, embeddedText) ==
    [id |-> Cardinality(document_chunks) + 1, document_id |-> Doc, chunk_index |-> i,
     content |-> ChunkContent(i), user_id |-> documents[Doc].user_id, dim |-> dim,
     embeddedText |-> embeddedText]

\* The insert is rejected when the vector does not fit the column (or for any
\* other reason the store has).
InsertAccepted(row) == row.dim = EmbeddingDim

\* Variant of AfterChunkFailure that gives the document up.
AfterChunkFailureAborts(f) ==
    [f EXCEPT !.pc = "catch", !.embeddingResponse = NoEmbedding]

\* continue: on to the next chunk.
AfterChunkFailure(f) ==
    [f EXCEPT !.pc = "loop", !.i = @ + 1, !.embeddingResponse = NoEmbedding]

\* The head of one pass of the chunk loop: the embedding request of chunk i,
\* a single fetch.
FnEmbed(k) ==
    /\ fn[k].pc = "loop"
    /\ fn[k].i < fn[k].text.nChunks
    /\ \E e \in EmbeddingOutcomes :
         fn' = [fn EXCEPT ![k].pc = "embedded", ![k].embeddingResponse = e,
                          ![k].tried = Append(@, fn[k].i),
                          ![k].requestText = EmbedRequest(fn[k])]
    /\ UNCHANGED <<genVars, storeVars, chatVars, cpc, chunkVars, sendVars>>

\* The rest of the pass: the response is looked at and the row inserted;
\* every failure is logged and the loop continues.
FnChunk(k) ==
    /\ fn[k].pc = "embedded"
    /\ \E accepted \in BOOLEAN :
         LET e == fn[k].embeddingResponse
             row == ChunkRow(fn[k].i, e.dim, fn[k].requestText)
         IN IF e.kind = "values" /\ accepted /\ InsertAccepted(row)
            THEN /\ document_chunks' = document_chunks \cup {row}
                 /\ fn' = [fn EXCEPT ![k].pc = "loop", ![k].i = @ + 1,
                                     ![k].stored = @ + 1,
                                     ![k].embeddingResponse = NoEmbedding]
            ELSE /\ document_chunks' = document_chunks
                 /\ fn' = [fn EXCEPT ![k] = AfterChunkFailure(fn[k])]
    /\ UNCHANGED <<genVars, documents, chat_messages, chatVars, cpc, chunkVars, sendVars>>

\* After the loop: status completed with the counts, then the success
\* response; an update error is thrown.
FnComplete(k) ==
    /\ fn[k].pc = "loop"
    /\ fn[k].i = fn[k].text.nChunks
    /\ \/ /\ UpdateAccepted(Doc, "completed")
          /\ documents' = [documents EXCEPT ![Doc].status = "completed",
                                             ![Doc].total_chunks = fn[k].text.nChunks]
          /\ fn' = [fn EXCEPT ![k].pc = "done", ![k].status = 200,
                               ![k].chunksProcessed = fn[k].text.nChunks,
                               ![k].statusWritten = "completed"]
       \/ /\ fn' = [fn EXCEPT ![k].pc = "catch", ![k].statusWritten = "completed"]
          /\ UNCHANGED documents
    /\ UNCHANGED <<genVars, document_chunks, chat_messages, chatVars, cpc, chunkVars, sendVars>>

\* The catch block: the body is read again for the document id, the status is
\* set to failed, and whatever that raises is logged; then the 500 response.
FnCatch(k) ==
    /\ fn[k].pc = "catch"
    /\ documents' = IF BodyReadable(fn[k]) THEN UpdateStatus(Doc, "failed") ELSE documents
    /\ fn' = [fn EXCEPT ![k].pc = "done", ![k].status = 500,
                        ![k].statusWritten = IF BodyReadable(fn[k]) THEN "failed" ELSE @]
    /\ UNCHANGED <<genVars, document_chunks, chat_messages, chatVars, cpc, chunkVars, sendVars>>

IngestNext ==
    \/ ClientUpload
    \/ ClientInsert
    \/ ClientInvoke
    \/ ClientInvokeReturns
    \/ ClientInvokeFails
    \/ ClientMarkError
    \/ \E k \in Invocations : Reinvoke(k)
    \/ \E k \in Invocations : FnPrepare(k)
    \/ \E k \in Invocations : FnEmbed(k)
    \/ \E k \in Invocations : FnChunk(k)
    \/ \E k \in Invocations : FnComplete(k)
    \/ \E k \in Invocations : FnCatch(k)

\* A user with a selected file presses upload.
IngestInit ==
    /\ geminiApiKey \in BOOLEAN
    /\ openaiApiKey = FALSE
    /\ pc = "idle"
    /\ IdleGen
    /\ EmptyStore
    /\ IdleChat
    /\ cpc = "upload"
    /\ fn = [k \in Invocations |-> FnIdle]
    /\ IdleChunk
    /\ IdleSend

SpecIngest == IngestInit /\ [][IngestNext]_vars

----------------------------------------------------------------------------
(* chunkText *)

\* A text is a sequence of characters.  Space and Newline are white space, a
\* negative character is sentence-terminal punctuation (. ! ?), any other
\* character is a letter.
Space == 0
Newline == 1

IsSpace(c) == c \in {Space, Newline}

IsTerminal(c) == c < 0

\* The first index from i on whose character is white space (white = TRUE)
\* or is not (white = FALSE); Len(t) + 1 if there is none.
NextIndex(t, i, white) ==
    LET found == {j \in i..Len(t) : IsSpace(t[j]) = white} IN
    IF found = {} THEN Len(t) + 1
    ELSE CHOOSE j \in found : \A k \in found : j <= k

\* .replace(/\s+/g, ' '), from index i on: every run of white space becomes
\* one space.
RECURSIVE CollapseFrom(_, _)
CollapseFrom(t, i) ==
    IF i > Len(t) THEN <<>>
    ELSE IF IsSpace(t[i]) THEN <<Space>> \o CollapseFrom(t, NextIndex(t, i, FALSE))
    ELSE SubSeq(t, i, NextIndex(t, i, TRUE) - 1) \o CollapseFrom(t, NextIndex(t, i, TRUE))

CollapseSpaces(t) == CollapseFrom(t, 1)

\* The last index up to i whose character is not white space; 0 if none.
RECURSIVE LastInked(_, _)
LastInked(t, i) ==
    IF i = 0 \/ ~IsSpace(t[i]) THEN i ELSE LastInked(t, i - 1)

\* String.prototype.trim
Trim(t) == SubSeq(t, NextIndex(t, 1, FALSE), LastInked(t, Len(t)))

\* cleanText: white space collapsed, then /\n\s*\n/ replaced (no newline is
\* left for it to find), then trimmed.
CleanText(t) == Trim(CollapseSpaces(t))

\* split(/(?<=[.!?])\s+/), from index i on: the text is cut at every run
\* of white space that follows terminal punctuation.
RECURSIVE SplitFrom(_, _)
SplitFrom(t, i) ==
    LET cuts == {j \in (i + 1)..Len(t) : IsSpace(t[j]) /\ IsTerminal(t[j - 1])} IN
    IF cuts = {} THEN <<SubSeq(t, i, Len(t))>>
    ELSE LET cut == CHOOSE j \in cuts : \A k \in cuts : j <= k
         IN <<SubSeq(t, i, cut - 1)>> \o SplitFrom(t, NextIndex(t, cut, FALSE))

SplitSentences(t) == SplitFrom(t, 1)

NonBlank(t) == Len(Trim(t)) > 0

\* sentences: the pieces that are not blank.
Sentences(cleanText) == SelectSeq(SplitSentences(cleanText), NonBlank)

\* currentChunk.slice(-overlap): the last overlap characters; slice(-0) is
\* slice(0), the whole string.
Slice(currentChunk, n) ==
    IF n = 0 \/ n >= Len(currentChunk) THEN currentChunk
    ELSE SubSeq(currentChunk, Len(currentChunk) - n + 1, Len(currentChunk))

\* The chunk pushed for currentChunk.
Chunk(currentChunk, currentStartIndex) ==
    [content |-> Trim(currentChunk), startIndex |-> currentStartIndex,
     endIndex |-> currentStartIndex + Len(currentChunk)]

\* The loop over the sentences from sentence i on, and the last chunk.
RECURSIVE Accumulate(_, _, _, _, _, _)
Accumulate(sentences, i, currentChunk, currentStartIndex, max, ov) ==
    IF i > Len(sentences)
    THEN IF Len(Trim(currentChunk)) > 0
         THEN <<Chunk(currentChunk, currentStartIndex)>>
         ELSE <<>>
    ELSE LET sentence == Trim(sentences[i])
             potentialChunk ==
                 currentChunk \o (IF currentChunk # <<>> THEN <<Space>> ELSE <<>>)
                              \o sentence
             endIndex == currentStartIndex + Len(currentChunk)
         IN IF Len(potentialChunk) > max /\ Len(currentChunk) > 0
            THEN <<Chunk(currentChunk, currentStartIndex)>> \o
                 Accumulate(sentences, i + 1,
                            Slice(currentChunk, ov) \o <<Space>> \o sentence,
                            IF endIndex - ov > 0 THEN endIndex - ov ELSE 0, max, ov)
            ELSE Accumulate(sentences, i + 1, potentialChunk, currentStartIndex, max, ov)

\* Variant of MinContentLength that depends on the calls made before.
MinContentLengthDrifting == 50 + 10 * otherCalls

\* The length a chunk's content must exceed to be returned.
MinContentLength == 50

\* chunk.content.length > 50
Kept(chunk) == Len(chunk.content) > MinContentLength

\* Variant of Fits without the early return.
FitsNever(cleanText, max) == FALSE

\* cleanText.length <= maxChunkSize
Fits(cleanText, max) == Len(cleanText) <= max

ChunkText(t, max, ov) ==
    IF t = <<>> THEN <<>>
    ELSE LET cleanText == CleanText(t) IN
         IF Fits(cleanText, max)
         THEN <<[content |-> cleanText, startIndex |-> 0, endIndex |-> Len(cleanText)]>>
         ELSE SelectSeq(Accumulate(Sentences(cleanText), 1, <<>>, 0, max, ov), Kept)

\* Sentence j of a text: len characters, the last one its terminal
\* punctuation, the one at position space (if any) a space, the others
\* letters that occur nowhere else in the text.
Sentence(j, shape) ==
    [p \in 1..shape.len |->
        IF p = shape.len THEN 0 - j
        ELSE IF p = shape.space THEN Space
        ELSE 1000 * j + p]

MaxSentences == 2

SentenceShapes ==
    {[len |-> 9, space |-> 0], [len |-> 20, space |-> 11], [len |-> 50, space |-> 0],
     [len |-> 51, space |-> 0], [len |-> 51, space |-> 42], [len |-> 70, space |-> 0]}

\* How the sentences lie in the raw text: what separates them and what
\* surrounds the text.
Layouts ==
    {[sep |-> <<Space>>, pad |-> <<>>], [sep |-> <<Newline, Space>>, pad |-> <<Space>>]}

RECURSIVE Join(_, _, _)
Join(shapes, j, sep) ==
    IF j > Len(shapes) THEN <<>>
    ELSE (IF j > 1 THEN sep ELSE <<>>) \o Sentence(j, shapes[j]) \o Join(shapes, j + 1, sep)

RawText(shapes, layout) == layout.pad \o Join(shapes, 1, layout.sep) \o layout.pad

MaxChunkSizes == {60, 100}

Overlaps == {0, 10, 21}

\* The arguments chunkText is called with.
ChunkArguments ==
    {[text |-> RawText(shapes, layout), maxChunkSize |-> max, overlap |-> ov] :
        shapes \in UNION {[1..n -> SentenceShapes] : n \in 0..MaxSentences},
        layout \in Layouts, max \in MaxChunkSizes, ov \in Overlaps}

MaxCalls == 2

\* chunkText(text, maxChunkSize, overlap) is called and returns.
ChunkTextCall ==
    /\ Len(textChunks) < MaxCalls
    /\ textChunks' = Append(textChunks,
            ChunkText(chunkArgs.text, chunkArgs.maxChunkSize, chunkArgs.overlap))
    /\ UNCHANGED <<genVars, storeVars, chatVars, ingestVars, chunkArgs, otherCalls,
                   sendVars>>

\* chunkText is called on the text with another overlap: it has no state
\* outside its locals, so the call leaves nothing behind.
ChunkTextOther ==
    /\ otherCalls = 0
    /\ \E ov \in Overlaps \ {chunkArgs.overlap} : otherCalls' = otherCalls + 1
    /\ UNCHANGED <<genVars, storeVars, chatVars, ingestVars, chunkArgs, textChunks,
                   sendVars>>

ChunkNext ==
    \/ ChunkTextCall
    \/ ChunkTextOther

ChunkInit ==
    /\ geminiApiKey = FALSE
    /\ openaiApiKey = FALSE
    /\ pc = "idle"
    /\ IdleGen
    /\ EmptyStore
    /\ IdleChat
    /\ IdleIngest
    /\ chunkArgs \in ChunkArguments
    /\ textChunks = <<>>
    /\ otherCalls = 0
    /\ IdleSend

SpecChunk == ChunkInit /\ [][ChunkNext]_vars

----------------------------------------------------------------------------
(* The chat client: ChatInterface.sendMessage *)

\* How far the clock goes, and how many messages the user sends.
MaxNow == 3
MaxSends == 2

\* `temp-${Date.now()}`
TempId(t) == [kind |-> "temp", n |-> t]

\* The id the store gives the next row of table messages shown in the list.
RowId(list) ==
    [kind |-> "row", n |-> Cardinality({i \in DOMAIN list : list[i].kind = "row"}) + 1]

\* What the user has typed; whether a document is ready.
InputMessages == {"", " ", "hello"}

\* The guards of sendMessage (user and activeConversation are set).
CanSend(inputMessage, hasDocuments) ==
    /\ inputMessage \notin {"", " "}
    /\ ~loading
    /\ hasDocuments

\* prev.map(msg => msg.id === id ? row : msg)
Replaced(list, id, row) == [i \in DOMAIN list |-> IF list[i] = id THEN row ELSE list[i]]

\* prev.filter(msg => msg.id !== id)
Without(list, id) == LET Other(m) == m # id IN SelectSeq(list, Other)

\* Time passes.
Tick ==
    /\ now < MaxNow
    /\ now' = now + 1
    /\ UNCHANGED <<genVars, storeVars, chatVars, ingestVars, chunkVars, messages, loading,
                   sendMessage>>

\* sendMessage up to the first await: the guards, loading, and the temporary
\* user message added to the list.
SendStart ==
    /\ sendMessage.pc \in {"idle", "done"}
    /\ sendMessage.sends < MaxSends
    /\ \E inputMessage \in InputMessages, hasDocuments \in BOOLEAN :
         IF CanSend(inputMessage, hasDocuments)
         THEN /\ loading' = TRUE
              /\ messages' = Append(messages, TempId(now))
              /\ sendMessage' = [pc |-> "insertUser", tempUserMessage |-> TempId(now),
                                 failed |-> FALSE, sends |-> sendMessage.sends + 1]
         ELSE UNCHANGED <<loading, messages, sendMessage>>
    /\ UNCHANGED <<genVars, storeVars, chatVars, ingestVars, chunkVars, now>>

\* The insert of the user message returns: an error is thrown, else the
\* temporary message is replaced by the stored row.
SendUserInserted ==
    /\ sendMessage.pc = "insertUser"
    /\ \/ sendMessage' = [sendMessage EXCEPT !.pc = "catch"] /\ UNCHANGED messages
       \/ /\ messages' = Replaced(messages, sendMessage.tempUserMessage, RowId(messages))
          /\ sendMessage' = [sendMessage EXCEPT !.pc = "invoke"]
    /\ UNCHANGED <<genVars, storeVars, chatVars, ingestVars, chunkVars, loading, now>>

\* functions.invoke('chat-with-documents') returns: an error is thrown.
SendInvoked ==
    /\ sendMessage.pc = "invoke"
    /\ \E pcNext \in {"catch", "insertAssistant"} :
         sendMessage' = [sendMessage EXCEPT !.pc = pcNext]
    /\ UNCHANGED <<genVars, storeVars, chatVars, ingestVars, chunkVars, messages, loading,
                   now>>

\* The insert of the assistant message returns: an error is thrown, else the
\* stored row is added to the list.
SendAssistantInserted ==
    /\ sendMessage.pc = "insertAssistant"
    /\ \/ sendMessage' = [sendMessage EXCEPT !.pc = "catch"] /\ UNCHANGED messages
       \/ /\ messages' = Append(messages, RowId(messages))
          /\ sendMessage' = [sendMessage EXCEPT !.pc = "finally"]
    /\ UNCHANGED <<genVars, storeVars, chatVars, ingestVars, chunkVars, loading, now>>

\* catch: the message whose id is `temp-${Date.now()}`, with the time of the
\* catch, is removed from the list.
SendCatch ==
    /\ sendMessage.pc = "catch"
    /\ messages' = Without(messages, TempId(now))
    /\ sendMessage' = [sendMessage EXCEPT !.pc = "finally", !.failed = TRUE]
    /\ UNCHANGED <<genVars, storeVars, chatVars, ingestVars, chunkVars, loading, now>>

\* finally
SendFinally ==
    /\ sendMessage.pc = "finally"
    /\ loading' = FALSE
    /\ sendMessage' = [sendMessage EXCEPT !.pc = "done"]
    /\ UNCHANGED <<genVars, storeVars, chatVars, ingestVars, chunkVars, messages, now>>

SendNext ==
    \/ Tick
    \/ SendStart
    \/ SendUserInserted
    \/ SendInvoked
    \/ SendAssistantInserted
    \/ SendCatch
    \/ SendFinally

\* A conversation is open, empty or with an exchange loaded.
SendInit ==
    /\ geminiApiKey = FALSE
    /\ openaiApiKey = FALSE
    /\ pc = "idle"
    /\ IdleGen
    /\ EmptyStore
    /\ IdleChat
    /\ IdleIngest
    /\ IdleChunk
    /\ messages \in {<<>>, <<[kind |-> "row", n |-> 1], [kind |-> "row", n |-> 2]>>}
    /\ loading = FALSE
    /\ now = 0
    /\ sendMessage = NotSending

SpecSend == SendInit /\ [][SendNext]_vars

----------------------------------------------------------------------------
(* Properties *)

\* The site of the retryWithBackoff call that is running.
RetrySite == IF pc = "embed" THEN "embed" ELSE SiteOf(pc)

InRetry == rstatus # "idle"

\* What the operation made of the latest response.
LatestOutcome == Operation(RetrySite, resp)

\* The texts that mark an error as transient.
RetrySignals == {"503", "429", "500", "overloaded", "network"}

SignalsRetry(error) == \E n \in RetrySignals : Includes(error.message, n)

TerminalStatuses == {"completed", "failed", "error"}

\* C1: no chunk handed to the chat turn by the similarity search or by the
\* fallback query belongs to a user other than the userId of the request,
\* whatever that userId is (also when it is absent).
C1_OnlyOwnersChunks ==
    \A i \in DOMAIN chunks : chunks[i].owner = userId

\* C2: when an invocation of processDocument has ended in failure, the status
\* stored for the document is the failed/error status.
C2_FailureIsRecorded ==
    \A k \in DOMAIN fn :
        (fn[k].pc = "done" /\ fn[k].status = 500 /\ Doc \in DOMAIN documents)
            => documents[Doc].status \in {"failed", "error"}

\* C3: a document whose status is completed or failed/error keeps that status
\* in every later step of the client and of the function.
C3_TerminalStatusIsFinal ==
    [][\A d \in DOMAIN documents :
          documents[d].status \in TerminalStatuses
              => d \in DOMAIN documents' /\ documents'[d].status = documents[d].status]_vars

\* C4: when the first invocation of the operation fails with an error that
\* carries no retry signal, retryWithBackoff has thrown that error after this
\* one invocation and has scheduled no delay.
C4_NonRetryableFirstFailure ==
    (InRetry /\ calls = 1 /\ ~LatestOutcome.ok /\ ~SignalsRetry(LatestOutcome.error))
        => /\ rstatus = "thrown"
           /\ delays = 0
           /\ lastError = LatestOutcome.error

C4_Witness ==
    /\ pc = "embed" /\ rstatus = "thrown" /\ calls = 1
    /\ resp.status = 400 /\ resp.body = <<"quota">>

\* C5: after N-1 retryable failures the N-th invocation is made (N up to
\* maxRetries+1), and when it succeeds retryWithBackoff returns its value
\* after exactly N invocations and N-1 delays.
C5_SuccessAfterRetries ==
    /\ (InRetry /\ calls >= 1 /\ LatestOutcome.ok)
         => /\ rstatus = "returned"
            /\ rvalue = LatestOutcome.value
            /\ calls = attempt + 1
            /\ delays = calls - 1
            /\ calls <= MaxRetries(RetrySite) + 1
    /\ (InRetry /\ calls >= 1 /\ calls <= MaxRetries(RetrySite)
           /\ ~LatestOutcome.ok /\ SignalsRetry(LatestOutcome.error))
         => /\ rstatus \in {"waiting", "running"}
            /\ delays = calls

C5_Witness ==
    /\ pc = "gemini" /\ rstatus = "returned"
    /\ calls = GeminiMaxRetries + 1 /\ delays = GeminiMaxRetries

\* C6: when every invocation fails with a retryable error, retryWithBackoff
\* throws after maxRetries+1 invocations (4 for Gemini generation and for the
\* query embedding, 3 for OpenAI) and throws the error of the last invocation.
C6_ExhaustedRetries ==
    /\ (InRetry /\ rstatus = "thrown" /\ SignalsRetry(LatestOutcome.error))
         => /\ calls = (IF RetrySite = "openai" THEN 3 ELSE 4)
            /\ lastError = LatestOutcome.error
    /\ (InRetry /\ calls = (IF RetrySite = "openai" THEN 3 ELSE 4) /\ ~LatestOutcome.ok)
         => rstatus = "thrown"

C6_Witness ==
    /\ pc = "openaiFallback" /\ rstatus = "thrown" /\ calls = 3 /\ delays = 2
    /\ resp.status = 500 /\ resp.body = <<"quota">>

\* A response that is neither 429/500/503 nor a failed connection: another
\* HTTP error status, or a 2xx without the expected payload.
PermanentResponse(r) ==
    \/ r.status \in ErrStatuses \ {429, 500, 503}
    \/ r.status = 200 /\ ~r.payload

\* C7: a response with a status other than 429/500/503, or a 2xx without the
\* payload, is never re-attempted, whatever its body says.
C7_PermanentErrorsNotRetried ==
    (InRetry /\ calls >= 1 /\ PermanentResponse(resp)) => rstatus = "thrown"

\* C8: the secondary provider is contacted as failover only after the primary
\* was invoked maxRetries+1 = 4 times.
C8_FailoverAfterFullRetry ==
    (pc = "openaiFallback" /\ openaiCalls >= 1) => geminiCalls = 4

\* C9: when callGeminiAPI ends with a 503 or 429 and an OpenAI key is set, the
\* secondary is called with a retry loop of its own (at most 3 invocations),
\* and when it succeeds the result is its text, marked "OpenAI (fallback)".
C9_FailoverToSecondary ==
    LET failedOver == geminiError # NoError /\ geminiResp.status \in {503, 429} /\ openaiApiKey
    IN /\ (failedOver /\ pc # "generated")
            => /\ pc = "openaiFallback"
               /\ calls = openaiCalls
               /\ attempt <= 2
               /\ openaiCalls <= 3
       /\ (failedOver /\ pc = "generated")
            => /\ openaiCalls >= 1
               /\ genResult.kind = "return"
                    => /\ genResult.provider = "OpenAI (fallback)"
                       /\ genResult.response = PayloadOf("openai")
       /\ (pc = "openaiFallback" /\ rstatus = "returned")
            => rvalue = PayloadOf("openai")

C9_Witness ==
    /\ pc = "generated" /\ genResult.kind = "return"
    /\ genResult.provider = "OpenAI (fallback)"
    /\ geminiResp.status = 429 /\ openaiCalls = 3

\* C10: when callGeminiAPI ends with an error other than a 503 or 429, the
\* secondary provider is not called and generateAIResponse throws that error.
C10_NoFailoverOnOtherErrors ==
    (geminiError # NoError /\ geminiResp.status \notin {503, 429})
        => /\ openaiCalls = 0
           /\ pc = "generated"
           /\ genResult = Thrown(geminiError)
           /\ geminiError = GeminiOperation(geminiResp).error

C10_Witness ==
    /\ pc = "generated" /\ openaiApiKey /\ genResult.kind = "throw"
    /\ geminiResp.status = 500 /\ geminiCalls = 4

\* C11: with neither key configured generateAIResponse throws the
\* configuration error at once: no provider is invoked, the retry loop is
\* never entered and no delay is scheduled.
C11_NoProviderConfigured ==
    (~geminiApiKey /\ ~openaiApiKey /\ pc \notin {"generate", "idle"})
        => /\ pc = "generated"
           /\ genResult = Thrown(Err(<<"No AI API keys configured">>))
           /\ geminiCalls = 0 /\ openaiCalls = 0
           /\ rstatus = "idle" /\ calls = 0 /\ delays = 0 /\ attempt = 0

C11_Witness ==
    /\ ~geminiApiKey /\ ~openaiApiKey /\ pc = "generated" /\ genResult.kind = "throw"

\* C12: the rows of the primary search are in non-increasing order of
\* similarity, each is strictly above the threshold, there are at most
\* match_count of them, and the context and sources of the prompt are built
\* from exactly these rows in this order.
C12_RankedAboveThreshold ==
    retrieval = "primary"
        => /\ Len(chunks) <= MatchCount
           /\ \A i \in DOMAIN chunks : chunks[i].similarity > MatchThreshold
           /\ \A i, j \in DOMAIN chunks :
                  i < j => chunks[i].similarity >= chunks[j].similarity
           /\ pc = "generate"
                  => /\ Len(prompt.sources) = Len(chunks)
                     /\ \A i \in DOMAIN chunks :
                            prompt.sources[i].chunk_content = chunks[i].content \o <<"...">>
                     /\ prompt.context = Context(chunks)

C12_Witness ==
    /\ retrieval = "primary" /\ pc = "generate" /\ Len(chunks) = MatchCount
    /\ chunks[1].similarity = 90 /\ chunks[MatchCount].similarity = 70

\* C13: every row of the primary search belongs to a completed document.
C13_OnlyCompletedDocuments ==
    retrieval = "primary"
        => \A i \in DOMAIN chunks : documents[chunks[i].document_id].status = "completed"

C13_Witness ==
    /\ retrieval = "primary" /\ userId = "u1" /\ pc = "generate"
    /\ Len(chunks) = 1 /\ chunks[1].id = "c1"

\* C14: after an error of the primary search the turn goes on: the fallback
\* query gives at most 5 rows, all of the requesting owner, which go to prompt
\* assembly; if the fallback fails too the chunk list is empty and the turn
\* ends with the no-relevant answer; in neither case with an error response.
C14_FallbackRetrieval ==
    /\ retrieval = "fallback"
          => /\ Len(chunks) <= 5
             /\ \A i \in DOMAIN chunks :
                    documents[chunks[i].document_id].user_id = userId
             /\ pc \in {"assemble", "generate", "done"}
             /\ (pc = "generate") => (chunks # <<>> /\ prompt.context = Context(chunks))
             /\ response.status # 500
    /\ retrieval = "failed"
          => /\ chunks = <<>>
             /\ pc \in {"assemble", "done"}
             /\ pc = "done" => /\ response.status = 200
                               /\ response.response = NoRelevantText
                               /\ response.error = <<>>

C14_Witness ==
    /\ retrieval = "fallback" /\ pc = "generate" /\ Len(chunks) = 5 /\ userId = "u1"

\* C15: a retrieval that yields no chunk (empty primary result, empty or
\* failed fallback) ends the turn with status 200, the fixed
\* no-relevant-documents text, empty sources and no error field, and no
\* generation provider is called.
C15_NoChunksIsNormalAnswer ==
    (retrieval # "none" /\ chunks = <<>> /\ pc # "assemble")
        => /\ pc = "done"
           /\ response.status = 200
           /\ response.response = NoRelevantText
           /\ response.sources = <<>>
           /\ response.error = <<>>
           /\ geminiCalls = 0 /\ openaiCalls = 0
           /\ genResult = NoResult

C15_Witness ==
    /\ retrieval = "primary" /\ chunks = <<>> /\ pc = "done" /\ userId = "u2"

\* C16: whenever the turn ends with a response text (an answer, the
\* no-relevant or no-content text, an apology) one assistant message with that
\* text has been recorded for the session.
C16_AssistantMessageRecorded ==
    (pc = "done" /\ response.status = 200)
        => /\ Len(chat_messages) = 1
           /\ chat_messages[1].role = "assistant"
           /\ chat_messages[1].content = response.response

\* C17: when generation has failed the turn answers with status 200, empty
\* sources and the tag AI_SERVICE_UNAVAILABLE, and the apology follows the
\* cause: the overloaded text for a 503, the rate-limited text for a 429, the
\* generic text for any other failure (a reply without text, an auth failure,
\* no reply at all).  Stated for the turns whose error is the Gemini error and
\* whose response body does not point to another cause than its status.
C17_ApologyByCause ==
    (pc = "done" /\ genResult.kind = "throw" /\ geminiApiKey)
        => /\ response.status = 200
           /\ response.sources = <<>>
           /\ response.error = <<"AI_SERVICE_UNAVAILABLE">>
           /\ (geminiResp.status = 503 /\ geminiResp.body \in {<<>>, <<"overloaded">>})
                  => response.response = <<DifficultiesText, OverloadedText>>
           /\ (geminiResp.status = 429 /\ geminiResp.body \in {<<>>, <<"429">>, <<"quota">>})
                  => response.response = <<DifficultiesText, RateLimitedText>>
           /\ (geminiResp.status \notin {503, 429} /\ geminiResp.body \notin {<<"overloaded">>, <<"429">>})
                  => response.response = <<DifficultiesText, GenericText>>

\* The chunk indexes 0 .. n-1 in order.
FirstChunks(n) == [j \in 1..n |-> j - 1]

\* C18: a chunk whose embedding or insert fails is skipped and the loop goes
\* on: every chunk is requested once, in order, whatever failed before; the
\* invocation leaves the loop only after the last chunk, and then answers with
\* the success payload after setting the status completed.
C18_ChunkFailureSkipsChunk ==
    \A k \in Invocations :
        LET f == fn[k] IN
        /\ f.pc = "loop" => f.tried = FirstChunks(f.i)
        /\ f.pc = "embedded" => f.tried = FirstChunks(f.i + 1)
        /\ (f.pc \in {"catch", "done"} /\ f.tried # <<>>)
               => f.tried = FirstChunks(f.text.nChunks)
        /\ (f.pc = "done" /\ f.status = 200)
               => /\ f.tried = FirstChunks(f.text.nChunks)
                  /\ f.chunksProcessed = f.text.nChunks
                  /\ documents[Doc].status # "processing"

C18_Witness ==
    /\ fn[1].pc = "done" /\ fn[1].status = 200 /\ fn[1].text.nChunks = 2
    /\ fn[1].stored = 0 /\ documents[Doc].status = "completed"

\* C19: an embedding request of the chunk loop that is answered 503 is made
\* again for the same chunk, as long as the chunk has had no more than
\* EmbedMaxRetries requests after the first.
C19_EmbeddingRetriedOn503 ==
    [][\A k \in Invocations :
          (/\ fn[k].pc = "embedded"
           /\ fn[k].embeddingResponse.status = 503
           /\ Cardinality({j \in DOMAIN fn[k].tried : fn[k].tried[j] = fn[k].i})
                  <= EmbedMaxRetries
           /\ fn'[k] # fn[k])
              => (fn'[k].pc = "loop" /\ fn'[k].i = fn[k].i)]_vars

\* C20: an invocation whose extracted text is empty or shorter than 10
\* characters goes to the failure path before chunking: it requests no
\* embedding, stores no row, answers with the error payload, and the document
\* is not completed by it.
C20_UnreadableTextFailsFast ==
    \A k \in Invocations :
        LET f == fn[k] IN
        (f.pc \notin {"idle", "start"} /\ f.text.textLength < 10)
            => /\ f.pc \in {"catch", "done"}
               /\ f.tried = <<>>
               /\ f.stored = 0
               /\ f.chunksProcessed = 0
               /\ f.pc = "done" => f.status = 500
               /\ (\A j \in Invocations \ {k} : fn[j].pc = "idle")
                      => (document_chunks = {} /\ documents[Doc].status # "completed")

C20_Witness ==
    /\ fn[1].pc = "done" /\ fn[1].text.textLength = 9 /\ fn[1].status = 500
    /\ geminiApiKey

\* C21: an embedding whose dimension is not that of the column is fatal for
\* the invocation: the next step after such a response is the failure path,
\* not the next chunk.
C21_DimensionMismatchIsFatal ==
    [][\A k \in Invocations :
          (/\ fn[k].pc = "embedded"
           /\ fn[k].embeddingResponse.kind = "values"
           /\ fn[k].embeddingResponse.dim # EmbeddingDim
           /\ fn'[k] # fn[k])
              => fn'[k].pc = "catch"]_vars

\* The chunk_index values of the rows stored for the document.
StoredIndexes == {r.chunk_index : r \in document_chunks}

\* C22: once no invocation is running, the ordinal indexes of the stored rows
\* are 0 .. n-1 for some n, whatever chunks failed.
C22_ContiguousIndexes ==
    (\A k \in Invocations : fn[k].pc \in {"idle", "done"})
        => StoredIndexes = 0 .. (Cardinality(StoredIndexes) - 1)

\* The normalized text of the call.
Normalized == CleanText(chunkArgs.text)

\* The text is split: it is not empty and its normalized text does not fit.
SplitPath == chunkArgs.text # <<>> /\ Len(Normalized) > chunkArgs.maxChunkSize

\* The chunks the loop pushes, before the filter.
Pushed ==
    Accumulate(Sentences(Normalized), 1, <<>>, 0, chunkArgs.maxChunkSize, chunkArgs.overlap)

IsPrefix(p, t) == Len(p) <= Len(t) /\ SubSeq(t, 1, Len(p)) = p

Contains(t, part) ==
    \E i \in 1..(Len(t) - Len(part) + 1) : SubSeq(t, i, i + Len(part) - 1) = part

\* The last n characters of t, all of t if it is shorter.
LastChars(t, n) == IF n >= Len(t) THEN t ELSE SubSeq(t, Len(t) - n + 1, Len(t))

\* C23: every returned chunk has a content of at least 50 characters, and
\* every chunk the loop pushed with 50 characters or more is returned.
C23_MinimalContentLength ==
    \A n \in DOMAIN textChunks :
        /\ \A j \in DOMAIN textChunks[n] :
               Len(textChunks[n][j].content) >= 50
        /\ SplitPath
               => \A i \in DOMAIN Pushed :
                      Len(Pushed[i].content) >= 50
                          => \E j \in DOMAIN textChunks[n] : textChunks[n][j] = Pushed[i]

\* C24: of two consecutive returned chunks that the loop pushed one after the
\* other, the last overlap characters of the first one's content (all of it
\* if it is shorter) are a prefix of the second one's content.
C24_OverlapIsPrefix ==
    \A n \in DOMAIN textChunks :
        SplitPath
            => \A j \in 1..(Len(textChunks[n]) - 1) :
                   (\E i \in 1..(Len(Pushed) - 1) :
                        Pushed[i] = textChunks[n][j] /\ Pushed[i + 1] = textChunks[n][j + 1])
                       => IsPrefix(LastChars(textChunks[n][j].content, chunkArgs.overlap),
                                   textChunks[n][j + 1].content)

\* C25: a returned chunk is no longer than maxChunkSize, unless it is one
\* single sentence that is longer than that.
C25_ChunkWithinMaxSize ==
    \A n \in DOMAIN textChunks :
        \A j \in DOMAIN textChunks[n] :
            \/ Len(textChunks[n][j].content) <= chunkArgs.maxChunkSize
            \/ \E k \in DOMAIN Sentences(Normalized) :
                   textChunks[n][j].content = Sentences(Normalized)[k]

\* C26: every sentence of the normalized text is whole in some returned
\* chunk, and a sentence longer than maxChunkSize is whole in a chunk that
\* holds no other sentence whole.
C26_NoTextLost ==
    \A n \in DOMAIN textChunks :
        \A k \in DOMAIN Sentences(Normalized) :
            LET sentence == Sentences(Normalized)[k]
                holders == {j \in DOMAIN textChunks[n] :
                               Contains(textChunks[n][j].content, sentence)}
            IN /\ holders # {}
               /\ Len(sentence) > chunkArgs.maxChunkSize
                      => \E j \in holders :
                             \A k2 \in DOMAIN Sentences(Normalized) \ {k} :
                                 ~Contains(textChunks[n][j].content, Sentences(Normalized)[k2])

\* C27: the offsets of a returned chunk lie in the normalized text, in
\* order, and the content is the normalized text between them.
C27_OffsetsDelimitContent ==
    \A n \in DOMAIN textChunks :
        \A j \in DOMAIN textChunks[n] :
            LET c == textChunks[n][j] IN
            /\ 0 <= c.startIndex
            /\ c.startIndex <= c.endIndex
            /\ c.endIndex <= Len(Normalized)
            /\ c.content = SubSeq(Normalized, c.startIndex + 1, c.endIndex)

\* The one chunk that is the whole normalized text.
WholeText == [content |-> Normalized, startIndex |-> 0, endIndex |-> Len(Normalized)]

\* C28 as stated: a normalized text that fits in maxChunkSize is returned as
\* one chunk, the whole of it, with offsets 0 and its length.
C28_FittingTextIsOneChunk ==
    \A n \in DOMAIN textChunks :
        Len(Normalized) <= chunkArgs.maxChunkSize => textChunks[n] = <<WholeText>>

\* C28 amended: that holds for a text that is not empty; the empty text
\* gives no chunk.
C28_FittingNonEmptyTextIsOneChunk ==
    \A n \in DOMAIN textChunks :
        /\ (chunkArgs.text # <<>> /\ Len(Normalized) <= chunkArgs.maxChunkSize)
               => textChunks[n] = <<WholeText>>
        /\ chunkArgs.text = <<>> => textChunks[n] = <<>>

C28_Witness ==
    /\ textChunks # <<>> /\ Len(textChunks[1]) = 1
    /\ chunkArgs.text # Normalized /\ Len(Normalized) = 9

C29_DelayBounds ==
    rstatus = "waiting"
        => /\ delay >= BaseDelay * Pow2(attempt)
           /\ delay < BaseDelay * Pow2(attempt) + BaseDelay
           /\ attempt = 0 => delay \in 1000..1999
           /\ attempt = 1 => delay \in 2000..2999
           /\ attempt = 2 => delay \in 4000..4999

C29_Witness ==
    /\ rstatus = "waiting" /\ attempt = 2 /\ delay = 4999 /\ pc = "gemini"

\* The splits of the loop, in order: the chunk each one closes (currentChunk
\* at the push) and the overlapText it seeds the next chunk with.
RECURSIVE Splits(_, _, _, _, _)
Splits(sentences, i, currentChunk, max, ov) ==
    IF i > Len(sentences) THEN <<>>
    ELSE LET sentence == Trim(sentences[i])
             potentialChunk ==
                 currentChunk \o (IF currentChunk # <<>> THEN <<Space>> ELSE <<>>)
                              \o sentence
             overlapText == Slice(currentChunk, ov)
         IN IF Len(potentialChunk) > max /\ Len(currentChunk) > 0
            THEN <<[closed |-> currentChunk, overlapText |-> overlapText]>> \o
                 Splits(sentences, i + 1, overlapText \o <<Space>> \o sentence, max, ov)
            ELSE Splits(sentences, i + 1, potentialChunk, max, ov)

\* The splits of the call.
CallSplits ==
    Splits(Sentences(Normalized), 1, <<>>, chunkArgs.maxChunkSize, chunkArgs.overlap)

\* C31: once chunkText was called on a text that is split, every split seeds
\* the next chunk with exactly the last min(overlap, length) characters of the
\* chunk it closes; with overlap 0 the seed is empty.
C31_SeedIsOverlapTail ==
    (textChunks # <<>> /\ SplitPath)
        => \A i \in DOMAIN CallSplits :
               LET closed == CallSplits[i].closed
                   n == IF chunkArgs.overlap < Len(closed)
                        THEN chunkArgs.overlap ELSE Len(closed)
               IN /\ Len(CallSplits[i].overlapText) = n
                  /\ CallSplits[i].overlapText = LastChars(closed, n)

\* C32: an invocation that ended with status completed returns as
\* chunksProcessed the number of rows it stored, and when it is the only
\* invocation made, total_chunks of the document is that number too.
C32_CountIsRowsStored ==
    \A k \in Invocations :
        (fn[k].pc = "done" /\ fn[k].status = 200)
            => /\ fn[k].chunksProcessed = fn[k].stored
               /\ (\A j \in Invocations \ {k} : fn[j].pc = "idle")
                      => documents[Doc].total_chunks = fn[k].stored

C34_FallbackBeforeNoRelevant ==
    (pc = "done" /\ response = NoRelevantResponse)
        => retrieval \in {"fallback", "failed"}

\* C35: every stored chunk row has an embedding of the column's dimension
\* that was returned for a request with the row's own content, and the owner
\* of its document; and a pass whose embedding request failed or returned no
\* embedding stores no row.
C35_RowsCarryTheirOwnEmbedding ==
    [][/\ \A r \in document_chunks' :
              /\ r.embeddedText = r.content
              /\ r.dim = EmbeddingDim
              /\ r.user_id = documents'[r.document_id].user_id
       /\ \A k \in Invocations :
              (/\ fn[k].pc = "embedded"
               /\ fn[k].embeddingResponse.kind # "values"
               /\ fn'[k] # fn[k])
                  => document_chunks' = document_chunks]_vars

C35_Witness ==
    /\ fn[1].pc = "done" /\ fn[1].stored = 2
    /\ fn[2].pc = "done" /\ fn[2].stored = 1 /\ fn[2].text.nChunks = 2
    /\ Cardinality(document_chunks) = 3

\* C36: no two stored chunk rows of one document have the same ordinal
\* index, also when processDocument is invoked for the document more than
\* once, one invocation after or during the other.
C36_OneRowPerIndex ==
    \A r1, r2 \in document_chunks :
        (r1 # r2 /\ r1.document_id = r2.document_id)
            => r1.chunk_index # r2.chunk_index

\* C37: no step of a chat turn changes table documents or table
\* document_chunks, on any path of the turn.
C37_ChatLeavesDocumentsAlone ==
    [][documents' = documents /\ document_chunks' = document_chunks]_vars

C37_Witness ==
    /\ pc = "done" /\ response.status = 200 /\ response.provider # ""
    /\ retrieval = "primary" /\ chunks # <<>>
    /\ Len(chat_messages) = 1
    /\ documents = SampleDocuments /\ document_chunks = SampleChunks

\* C38: after a send that failed, the list of messages holds no temporary
\* message and loading is false.
C38_FailedSendLeavesNoTemp ==
    (sendMessage.pc = "done" /\ sendMessage.failed)
        => /\ \A i \in DOMAIN messages : messages[i].kind # "temp"
           /\ loading = FALSE

====
